---- MODULE Spec2Model ----
(***************************************************************************)
(* Model of src/script.js: the Sudoku engine (constraint checker, solved-  *)
(* grid generator, solution counter, puzzle carver) and the game session   *)
(* (selection, moves, win check, answer check, reset, new game).           *)
(*                                                                         *)
(* The source fixes the box side to 3 (a 9x9 board).  The model keeps the  *)
(* code's structure and instantiates the box side as BoxSize, so that the  *)
(* searches can be explored exhaustively: with BoxSize = 2 the board is    *)
(* 4x4, the digits are 1..4 and there are 288 solved grids.                *)
(***************************************************************************)
EXTENDS Integers, Sequences, FiniteSets, TLC

\* Side of a box (3 in the source: Math.floor(col / 3), boxY * 3 + 3).
BoxSize == 2

\* Side of the board and largest digit (9 in the source).
N == BoxSize * BoxSize

\* Row and column indices as the code counts them: 0 .. 8 in the source.
Idx == 0 .. (N - 1)

\* Cell positions [row, col].
Cells == Idx \X Idx

\* The value findEmptyCell returns when no cell is empty (null).
null == <<>>

\* Array(9).fill(null).map(() => Array(9).fill(0))
RECURSIVE Fill(_, _)
Fill(n, v) == IF n = 1 THEN (0 :> v) ELSE Fill(n - 1, v) @@ ((n - 1) :> v)

EmptyBoard == Fill(N, Fill(N, 0))

\* board[row][col] = v, in place.
SetCell(board, pos, v) == [board EXCEPT ![pos[1]][pos[2]] = v]

\* isValidPlacement whose row loop lacks `&& col !== j`.
isValidPlacementCountsSelf(board, num, pos) ==
    LET row == pos[1]
        col == pos[2]
        boxX == col \div BoxSize
        boxY == row \div BoxSize
    IN  /\ \A j \in Idx : ~(board[row][j] = num)
        /\ \A i \in Idx : ~(board[i][col] = num /\ row # i)
        /\ \A i \in (boxY * BoxSize) .. (boxY * BoxSize + BoxSize - 1) :
             \A j \in (boxX * BoxSize) .. (boxX * BoxSize + BoxSize - 1) :
                ~(board[i][j] = num /\ (i # row \/ j # col))

\* The three loops of isValidPlacement.
isValidPlacement(board, num, pos) ==
    LET row == pos[1]
        col == pos[2]
        boxX == col \div BoxSize
        boxY == row \div BoxSize
    IN  /\ \A j \in Idx : ~(board[row][j] = num /\ col # j)
        /\ \A i \in Idx : ~(board[i][col] = num /\ row # i)
        /\ \A i \in (boxY * BoxSize) .. (boxY * BoxSize + BoxSize - 1) :
             \A j \in (boxX * BoxSize) .. (boxX * BoxSize + BoxSize - 1) :
                ~(board[i][j] = num /\ (i # row \/ j # col))

\* Position of a cell in the row-major scan of findEmptyCell.
ScanIndex(pos) == pos[1] * N + pos[2]

\* findEmptyCell whose outer loop stops one row early.
findEmptyCellShort(board) ==
    LET empties == {c \in Cells : c[1] < N - 1 /\ board[c[1]][c[2]] = 0}
    IN  IF empties = {} THEN null
        ELSE CHOOSE c \in empties : \A d \in empties : ScanIndex(c) <= ScanIndex(d)

\* The first empty cell in row-major order, or null.
findEmptyCell(board) ==
    LET empties == {c \in Cells : board[c[1]][c[2]] = 0}
    IN  IF empties = {} THEN null
        ELSE CHOOSE c \in empties : \A d \in empties : ScanIndex(c) <= ScanIndex(d)

\* array[i], array[j] = array[j], array[i] on a 1-indexed sequence.
Swap(array, i, j) == [array EXCEPT ![i] = array[j], ![j] = array[i]]

RECURSIVE ShuffleFrom(_, _)
\* The loop of shuffle from index i down (i is the code's i + 1): every value
\* j = Math.floor(Math.random() * (i + 1)) can take; the set of results.
ShuffleFrom(array, i) ==
    IF i <= 1 THEN {array}
    ELSE UNION {ShuffleFrom(Swap(array, i, j), i - 1) : j \in 1 .. i}

\* shuffle(array): the arrays the Fisher-Yates loop can return.
shuffle(array) == ShuffleFrom(array, Len(array))

\* [1, 2, ..., 9]
Digits == [k \in 1 .. N |-> k]

\* shuffle([1, 2, 3, 4, 5, 6, 7, 8, 9])
ShuffledDigits == shuffle(Digits)

\* generateSolvedSudokuGrid(board) works in place and returns a boolean; what
\* it does depends on what each shuffle returns.  GenOutcomes(board) is the set
\* of its outcomes [ok |-> the value returned, board |-> the board it leaves],
\* one for each way the shuffles of the call and of its recursive calls can
\* come out.
RECURSIVE GenOutcomes(_)
RECURSIVE GenLoop(_, _, _, _, _, _)
RECURSIVE GenLoopNoReset(_, _, _, _, _, _)

\* The outcomes of the recursive call after board[row][col] = num on the board
\* as the call found it, for every num the `if` lets through.
GenSub(board, pos) ==
    {<<num, GenOutcomes(SetCell(board, pos, num))>> :
        num \in {n \in 1 .. N : isValidPlacement(board, n, pos)}}

\* The outcomes of that recursive call for num.
SubOf(sub, num) == (CHOOSE p \in sub : p[1] = num)[2]

\* The loop without `board[row][col] = 0` after a recursive call that failed.
GenLoopNoReset(entry, sub, board, pos, numbers, k) ==
    IF k > Len(numbers) THEN {[ok |-> FALSE, board |-> board]}
    ELSE LET num == numbers[k]
         IN  IF isValidPlacement(board, num, pos)
             THEN LET outs == IF board = entry THEN SubOf(sub, num)
                              ELSE GenOutcomes(SetCell(board, pos, num))
                  IN  UNION {IF o.ok THEN {o}
                             ELSE GenLoopNoReset(entry, sub, o.board,
                                                 pos, numbers, k + 1) : o \in outs}
             ELSE GenLoopNoReset(entry, sub, board, pos, numbers, k + 1)

\* `for (let num of numbers)` from the k-th number on, the board being
\* `board` (`entry` when the call began): place num, recurse, return true on
\* success, else reset the cell to 0 on the board the recursive call left and
\* go on; return false after the last number.
GenLoop(entry, sub, board, pos, numbers, k) ==
    IF k > Len(numbers) THEN {[ok |-> FALSE, board |-> board]}
    ELSE LET num == numbers[k]
         IN  IF isValidPlacement(board, num, pos)
             THEN LET outs == IF board = entry THEN SubOf(sub, num)
                              ELSE GenOutcomes(SetCell(board, pos, num))
                  IN  UNION {IF o.ok THEN {o}
                             ELSE GenLoop(entry, sub, SetCell(o.board, pos, 0),
                                          pos, numbers, k + 1) : o \in outs}
             ELSE GenLoop(entry, sub, board, pos, numbers, k + 1)

\* The call past `if (!find) return true`: the loop, for each result of
\* shuffle; no number fits when sub is empty.
GenFrame(board, find, sub) ==
    IF sub = {} THEN {[ok |-> FALSE, board |-> board]}
    ELSE UNION {GenLoop(board, sub, board, find, numbers, 1) :
                   numbers \in ShuffledDigits}

\* let find = findEmptyCell(board); if (!find) return true; ...
GenOutcomes(board) ==
    IF findEmptyCell(board) = null THEN {[ok |-> TRUE, board |-> board]}
    ELSE GenFrame(board, findEmptyCell(board),
                  GenSub(board, findEmptyCell(board)))

\* generateSolvedSudokuGrid(board): its outcomes.
generateSolvedSudokuGrid(board) == GenOutcomes(board)

RECURSIVE solve(_)
RECURSIVE SolveLoop(_, _, _)

\* The first candidate num .. N that isValidPlacement accepts at pos, N + 1 if
\* there is none: the iterations of `for (let num = ...)` whose `if` fails
\* change nothing.
NextValid(board, pos, num) ==
    IF \E n \in num .. N : isValidPlacement(board, n, pos)
    THEN CHOOSE n \in num .. N :
            /\ isValidPlacement(board, n, pos)
            /\ \A m \in num .. (n - 1) : ~isValidPlacement(board, m, pos)
    ELSE N + 1

\* solve() with `if (count > 2) return;`.
SolveNextLateCap(st, pos, num) ==
    IF st.count > 2 THEN st
    ELSE SolveLoop([st EXCEPT !.board = SetCell(@, pos, 0)], pos, num + 1)

\* After solve() returned from the branch board[row][col] = num:
\* if (count > 1) return; board[row][col] = 0; and the loop goes on.
SolveNext(st, pos, num) ==
    IF st.count > 1 THEN st
    ELSE SolveLoop([st EXCEPT !.board = SetCell(@, pos, 0)], pos, num + 1)

\* for (let num = ...; num <= 9; num++) of solve(), from candidate num on.
SolveLoop(st, pos, num) ==
    LET n == NextValid(st.board, pos, num)
    IN  IF n > N THEN st
        ELSE SolveNext(solve([st EXCEPT !.board = SetCell(@, pos, n)]), pos, n)

\* The closure solve() of countSolutions on its captured board and count.
solve(st) ==
    LET find == findEmptyCell(st.board)
    IN  IF find = null THEN [st EXCEPT !.count = @ + 1]
        ELSE SolveLoop(st, find, 1)

\* countSolutions(board): the captured state when solve() has returned.
SolveRun(board) == solve([board |-> board, count |-> 0])

countSolutions(board) == SolveRun(board).count

RECURSIVE CopyRow(_, _)
\* [...row]: a new array with the first n cells of row.
CopyRow(row, n) ==
    IF n = 1 THEN (0 :> row[0]) ELSE CopyRow(row, n - 1) @@ ((n - 1) :> row[n - 1])

RECURSIVE CopyRows(_, _)
\* The first n rows of board, each copied.
CopyRows(board, n) ==
    IF n = 1 THEN (0 :> CopyRow(board[0], N))
    ELSE CopyRows(board, n - 1) @@ ((n - 1) :> CopyRow(board[n - 1], N))

\* board.map(row => [...row]): a new array with the same cells.
CopyBoard(board) == CopyRows(board, N)

\* The not yet visited cells in the order of the double loop that fills
\* `cells` (row by row), as a sequence.
RECURSIVE ScanOrder(_)
ScanOrder(cells) ==
    IF cells = {} THEN <<>>
    ELSE LET c == CHOOSE x \in cells : \A y \in cells : ScanIndex(x) <= ScanIndex(y)
         IN  <<c>> \o ScanOrder(cells \ {c})

\* The cells the loop `for (let [row, col] of cells)` can visit next.  shuffle
\* returns any permutation of the 81 positions, so the next cell is any cell
\* not visited so far; `window` bounds the permutations that are explored to
\* those whose next cell is one of the first `window` unvisited cells in scan
\* order (window >= N * N: every permutation).
NextCells(cells, window) ==
    LET order == ScanOrder(cells)
    IN  {order[k] : k \in 1 .. (IF Len(order) < window THEN Len(order) ELSE window)}

\* puzzle[row][col] = v: a write through `puzzle`, which is a copy of `board`
\* (board.map(row => [...row])) and shares no row with it.
PuzzleWrite(loc, pos, v) == [loc EXCEPT !.puzzle = SetCell(@, pos, v)]

\* The carver's puzzle once countSolutions(puzzle) has returned, the search
\* having been handed the puzzle itself: the puzzle is the board the search
\* left.
PuzzleAfterCountShared(loc, run) == [loc EXCEPT !.puzzle = run.board]

\* The carver's puzzle once countSolutions(puzzle.map(r => [...r])) has
\* returned: the search wrote to the copy, `run` is where it ended.
PuzzleAfterCount(loc, run) == loc

\* createPuzzle's iteration without `puzzle[row][col] = temp`: a rejected cell
\* stays empty.
createPuzzleVisitNoRestore(loc, pos) ==
    LET zeroed == PuzzleWrite(loc, pos, 0)
        run == SolveRun(CopyBoard(zeroed.puzzle))
        after == PuzzleAfterCount(zeroed, run)
        solutionCount == run.count
    IN  IF solutionCount # 1
        THEN [after EXCEPT !.cells = @ \ {pos}]
        ELSE [after EXCEPT !.cells = @ \ {pos}, !.removed = @ + 1]

\* createPuzzle's iteration restoring the cell only when no solution is left
\* (solutionCount < 1 in place of solutionCount !== 1).
createPuzzleVisitLax(loc, pos) ==
    LET temp == loc.puzzle[pos[1]][pos[2]]
        zeroed == PuzzleWrite(loc, pos, 0)
        run == SolveRun(CopyBoard(zeroed.puzzle))
        after == PuzzleAfterCount(zeroed, run)
        solutionCount == run.count
    IN  IF solutionCount < 1
        THEN [PuzzleWrite(after, pos, temp) EXCEPT !.cells = @ \ {pos}]
        ELSE [after EXCEPT !.cells = @ \ {pos}, !.removed = @ + 1]

\* One iteration of the loop of createPuzzle at [row, col], past the test
\* `removed >= holes`: on the argument and the locals [board, puzzle, cells,
\* removed].
createPuzzleVisit(loc, pos) ==
    LET temp == loc.puzzle[pos[1]][pos[2]]
        zeroed == PuzzleWrite(loc, pos, 0)
        run == SolveRun(CopyBoard(zeroed.puzzle))
        after == PuzzleAfterCount(zeroed, run)
        solutionCount == run.count
    IN  IF solutionCount # 1
        THEN [PuzzleWrite(after, pos, temp) EXCEPT !.cells = @ \ {pos}]
        ELSE [after EXCEPT !.cells = @ \ {pos}, !.removed = @ + 1]

\* The argument and the locals of createPuzzle(board, holes) when the loop is
\* entered.
createPuzzleEntry(board) ==
    [board |-> board, puzzle |-> CopyBoard(board), cells |-> Cells, removed |-> 0]

\* The test of createPuzzle's loop with > in place of >=.
createPuzzleExitLate(loc, holes) == loc.removed > holes \/ loc.cells = {}

\* The loop of createPuzzle has ended: break, or `cells` is exhausted.
createPuzzleExit(loc, holes) == loc.removed >= holes \/ loc.cells = {}

RECURSIVE createPuzzleLoop(_, _, _)
\* The boards the loop of createPuzzle can end with (return puzzle), from the
\* locals loc.
createPuzzleLoop(loc, holes, window) ==
    IF createPuzzleExit(loc, holes) THEN {loc.puzzle}
    ELSE UNION {createPuzzleLoop(createPuzzleVisit(loc, pos), holes, window) :
                   pos \in NextCells(loc.cells, window)}

\* createPuzzle(board, holes): the boards it can return, over the results of
\* shuffle.
createPuzzle(board, holes) ==
    createPuzzleLoop(createPuzzleEntry(board), holes, N * N)

\* checkWinCondition without the comparison with solvedBoard: only an empty
\* cell makes it return.
checkWinConditionFullOnly(puzzle, solved) ==
    \A i \in Idx : \A j \in Idx : ~(puzzle[i][j] = 0)

\* The loop of checkWinCondition falls through: no cell is empty or differs
\* from solvedBoard.
checkWinCondition(puzzle, solved) ==
    \A i \in Idx : \A j \in Idx :
        ~(puzzle[i][j] = 0 \/ puzzle[i][j] # solved[i][j])

\* The loops of checkAnswers: hasErrors.
hasErrors(initial, puzzle, solved) ==
    \E i \in Idx : \E j \in Idx :
        /\ initial[i][j] = 0 /\ puzzle[i][j] # 0
        /\ puzzle[i][j] # solved[i][j]

\* renderBoard(board): the cells that get the class 'incorrect'.
renderBoard(initial, board) ==
    {c \in Cells :
        /\ ~(initial[c[1]][c[2]] # 0)
        /\ board[c[1]][c[2]] # 0
        /\ ~isValidPlacement(board, board[c[1]][c[2]], c)}

\* The keys of the keydown handler: the digits '1' .. '9' (here up to N), the
\* three keys that clear, and a key the handler ignores.
DigitKeys == <<"1", "2", "3", "4", "5", "6", "7", "8", "9">>

Keys == {DigitKeys[k] : k \in 1 .. N} \cup {"Backspace", "Delete", "0", "Enter"}

\* key >= '1' && key <= '9'
IsDigitKey(key) == \E k \in 1 .. N : DigitKeys[k] = key

\* parseInt(key)
parseInt(key) == CHOOSE k \in 1 .. N : DigitKeys[k] = key

\* The values of the number-pad buttons (data-value).
PadValues == 1 .. N

\* WriteCell with the two indices exchanged: puzzleBoard[col][row] = num.
WriteCellTransposed(board, row, col, num) == [board EXCEPT ![col][row] = num]

\* puzzleBoard[row][col] = num
WriteCell(board, row, col, num) == [board EXCEPT ![row][col] = num]

\* The status messages.
MsgWon == "Congratulations! You solved the puzzle!"

MsgIncorrect == "Some answers are incorrect. Keep trying!"

MsgCorrect == "All your answers are correct so far! Keep going!"

MsgReset == "Puzzle has been reset"

\* `New ${difficulty} game started!`, the name of the difficulty left out.
MsgNew == "New game started!"

VARIABLES
    solvedBoard,     \* let solvedBoard
    puzzleBoard,     \* let puzzleBoard
    initialPuzzle,   \* let initialPuzzle
    selectedCell,    \* let selectedCell: null or [row, col]
    gameActive,      \* let gameActive
    statusMessage,   \* the text of #status-message
    incorrectCells,  \* the cells rendered with the class 'incorrect'
    aliases,         \* the globals that are the same array as puzzleBoard
    cp,              \* createPuzzle in progress: its arguments and locals
    gen,             \* a call of generateSolvedSudokuGrid: board and result
    probe            \* a call of isValidPlacement or countSolutions

session == <<solvedBoard, puzzleBoard, initialPuzzle, selectedCell, gameActive,
             statusMessage, incorrectCells, aliases>>

vars == <<solvedBoard, puzzleBoard, initialPuzzle, selectedCell, gameActive,
          statusMessage, incorrectCells, aliases, cp, gen, probe>>

\* ------------------------------------------------------------------ bounds

\* Largest number of holes a game of the session asks for; also the largest
\* target for which createPuzzle is explored over every visiting order.
MaxHoles == 2

\* Width of the window of NextCells when createPuzzle is explored up to the
\* largest targets.
ShuffleWindow == 2

\* Largest number of filled cells of a sparse board handed to the pure
\* functions.
MaxFilled == 2

\* Largest number of cleared cells of a dense board handed to the pure
\* functions.
MaxCleared == 3

\* The grids generateSolvedSudokuGrid can leave in an all-empty baseBoard.
GeneratedGrids == {o.board : o \in generateSolvedSudokuGrid(EmptyBoard)}

\* The generated grids whose first row is 1, 2, ..., N: every generated grid is
\* one of these with its digits renamed.
SeedGrids == {g \in GeneratedGrids : \A j \in Idx : g[0][j] = j + 1}

\* The hole counts startNewGame passes on (DIFFICULTY_LEVELS, scaled to the
\* board of the model).
HoleCounts == 0 .. MaxHoles

\* The cells of a board in scan order, as one sequence.
Flat(board) == [k \in 1 .. (N * N) |-> board[(k - 1) \div N][(k - 1) % N]]

\* Lexicographic order of two boards read in scan order.
LexLeq(g, h) ==
    \/ g = h
    \/ \E k \in 1 .. (N * N) :
         /\ Flat(g)[k] < Flat(h)[k]
         /\ \A m \in 1 .. (k - 1) : Flat(g)[m] = Flat(h)[m]

\* The grids of the games of the session: the first generated grid in
\* lexicographic order (what generateSolvedSudokuGrid leaves when shuffle
\* happens to return its argument unchanged).
SessionGrids == {g \in SeedGrids : \A h \in SeedGrids : LexLeq(g, h)}

\* initializeGame(holes): the values it can leave in the globals (and in the
\* rendered board), over the results of shuffle.
initializeGame(holes) ==
    UNION {{[solvedBoard |-> CopyBoard(baseBoard),
             puzzleBoard |-> puzzle,
             initialPuzzle |-> CopyBoard(puzzle),
             selectedCell |-> null,
             gameActive |-> TRUE,
             incorrectCells |-> renderBoard(puzzle, puzzle)] :
               puzzle \in createPuzzle(CopyBoard(baseBoard), holes)} :
           baseBoard \in SessionGrids}

\* The games of the session.
SessionGames == UNION {initializeGame(holes) : holes \in HoleCounts}

\* --------------------------------------------------------------- session

Idle ==
    /\ cp = [pc |-> "idle"]
    /\ gen = [pc |-> "idle"]
    /\ probe = [op |-> "none"]

\* The globals take the values initializeGame left.
Started(game, solved, puzzle, initial, selected, active, incorrect) ==
    /\ solved = game.solvedBoard
    /\ puzzle = game.puzzleBoard
    /\ initial = game.initialPuzzle
    /\ selected = game.selectedCell
    /\ active = game.gameActive
    /\ incorrect = game.incorrectCells

\* The arrays initializeGame leaves in solvedBoard, puzzleBoard and
\* initialPuzzle are three arrays (baseBoard.map, the puzzle createPuzzle built
\* with board.map, puzzleBoard.map): none is puzzleBoard's.
NoAlias == {}

\* DOMContentLoaded: initializeGame().
Init ==
    /\ Idle
    /\ \E game \in SessionGames :
         Started(game, solvedBoard, puzzleBoard, initialPuzzle, selectedCell,
                 gameActive, incorrectCells)
    /\ aliases = NoAlias
    /\ statusMessage = ""

\* A click on the cell [row, col]: renderBoard gives a listener only to the
\* cells that are empty in initialPuzzle, and the listener acts only while
\* gameActive.
HandleCellClick(row, col) ==
    /\ initialPuzzle[row][col] = 0
    /\ gameActive
    /\ selectedCell' = <<row, col>>
    /\ incorrectCells' = renderBoard(initialPuzzle, puzzleBoard)
    /\ UNCHANGED <<solvedBoard, puzzleBoard, initialPuzzle, gameActive,
                   statusMessage, aliases, cp, gen, probe>>

\* What a global holds once puzzleBoard[row][col] has been written: the
\* written array when it is puzzleBoard's array, what it held otherwise.
Seen(name, held, written) == IF name \in aliases THEN written ELSE held

\* puzzleBoard[row][col] = num; renderBoard(puzzleBoard); and, when win is
\* set, checkWinCondition().
Move(row, col, num, win) ==
    /\ puzzleBoard' = WriteCell(puzzleBoard, row, col, num)
    /\ initialPuzzle' = Seen("initialPuzzle", initialPuzzle, puzzleBoard')
    /\ solvedBoard' = Seen("solvedBoard", solvedBoard, puzzleBoard')
    /\ incorrectCells' = renderBoard(initialPuzzle', puzzleBoard')
    /\ IF win /\ checkWinCondition(puzzleBoard', solvedBoard')
       THEN /\ gameActive' = FALSE
            /\ statusMessage' = MsgWon
       ELSE UNCHANGED <<gameActive, statusMessage>>
    /\ UNCHANGED <<selectedCell, aliases, cp, gen, probe>>

\* The keydown listener without the branch of Backspace, Delete and '0'.
KeyDownDigitsOnly(key) ==
    IF selectedCell = null \/ ~gameActive THEN UNCHANGED vars
    ELSE IF initialPuzzle[selectedCell[1]][selectedCell[2]] # 0
         THEN UNCHANGED vars
    ELSE IF IsDigitKey(key)
         THEN Move(selectedCell[1], selectedCell[2], parseInt(key), TRUE)
    ELSE UNCHANGED vars

\* The keydown listener.
KeyDown(key) ==
    IF selectedCell = null \/ ~gameActive THEN UNCHANGED vars
    ELSE IF initialPuzzle[selectedCell[1]][selectedCell[2]] # 0
         THEN UNCHANGED vars
    ELSE IF IsDigitKey(key)
         THEN Move(selectedCell[1], selectedCell[2], parseInt(key), TRUE)
    ELSE IF key = "Backspace" \/ key = "Delete" \/ key = "0"
         THEN Move(selectedCell[1], selectedCell[2], 0, TRUE)
    ELSE UNCHANGED vars

\* The click listener of a .num-btn button.
NumBtn(value) ==
    IF selectedCell = null \/ ~gameActive THEN UNCHANGED vars
    ELSE IF initialPuzzle[selectedCell[1]][selectedCell[2]] # 0
         THEN UNCHANGED vars
    ELSE Move(selectedCell[1], selectedCell[2], value, TRUE)

\* The click listener of the .clear-btn button without the test of
\* gameActive.
ClearBtnUnguarded ==
    IF selectedCell = null THEN UNCHANGED vars
    ELSE IF initialPuzzle[selectedCell[1]][selectedCell[2]] # 0
         THEN UNCHANGED vars
    ELSE Move(selectedCell[1], selectedCell[2], 0, FALSE)

\* The click listener of the .clear-btn button.
ClearBtn ==
    IF selectedCell = null \/ ~gameActive THEN UNCHANGED vars
    ELSE IF initialPuzzle[selectedCell[1]][selectedCell[2]] # 0
         THEN UNCHANGED vars
    ELSE Move(selectedCell[1], selectedCell[2], 0, FALSE)

\* checkAnswers()
CheckAnswers ==
    /\ statusMessage' = IF hasErrors(initialPuzzle, puzzleBoard, solvedBoard)
                        THEN MsgIncorrect ELSE MsgCorrect
    /\ incorrectCells' = renderBoard(initialPuzzle, puzzleBoard)
    /\ UNCHANGED <<solvedBoard, puzzleBoard, initialPuzzle, selectedCell,
                   gameActive, aliases, cp, gen, probe>>

\* resetPuzzle() without `puzzleBoard = initialPuzzle.map(...)`.
ResetPuzzleKeepsBoard ==
    /\ statusMessage' = MsgReset
    /\ selectedCell' = null
    /\ gameActive' = TRUE
    /\ incorrectCells' = renderBoard(initialPuzzle, puzzleBoard)
    /\ UNCHANGED <<solvedBoard, puzzleBoard, initialPuzzle, aliases, cp, gen,
                   probe>>

\* resetPuzzle() with `puzzleBoard = initialPuzzle`: no copy, the two globals
\* are one array from then on.
ResetPuzzleShares ==
    /\ statusMessage' = MsgReset
    /\ selectedCell' = null
    /\ gameActive' = TRUE
    /\ puzzleBoard' = initialPuzzle
    /\ aliases' = {"initialPuzzle"}
    /\ incorrectCells' = renderBoard(initialPuzzle, puzzleBoard')
    /\ UNCHANGED <<solvedBoard, initialPuzzle, cp, gen, probe>>

\* resetPuzzle(): puzzleBoard is a new array.
ResetPuzzle ==
    /\ statusMessage' = MsgReset
    /\ selectedCell' = null
    /\ gameActive' = TRUE
    /\ puzzleBoard' = CopyBoard(initialPuzzle)
    /\ aliases' = NoAlias
    /\ incorrectCells' = renderBoard(initialPuzzle, puzzleBoard')
    /\ UNCHANGED <<solvedBoard, initialPuzzle, cp, gen, probe>>

\* newGame() and the change of #difficulty: startNewGame(difficulty).
NewGame ==
    /\ \E game \in SessionGames :
         Started(game, solvedBoard', puzzleBoard', initialPuzzle',
                 selectedCell', gameActive', incorrectCells')
    /\ aliases' = NoAlias
    /\ statusMessage' = MsgNew
    /\ UNCHANGED <<cp, gen, probe>>

Next ==
    \/ \E row \in Idx : \E col \in Idx : HandleCellClick(row, col)
    \/ \E key \in Keys : KeyDown(key)
    \/ \E value \in PadValues : NumBtn(value)
    \/ ClearBtn
    \/ CheckAnswers
    \/ ResetPuzzle
    \/ NewGame

Spec == Init /\ [][Next]_vars

\* ------------------------------------------------ what the claims say

\* The cells of a board that hold 0.
EmptyCells(board) == {c \in Cells : board[c[1]][c[2]] = 0}

\* The boards are equal cell for cell.
SameCells(a, b) == \A c \in Cells : a[c[1]][c[2]] = b[c[1]][c[2]]

\* The rows and the columns of the box that holds row (or column) k:
\* floor(k / BoxSize) * BoxSize .. + BoxSize - 1.
BoxRange(k) == ((k \div BoxSize) * BoxSize) .. ((k \div BoxSize) * BoxSize + BoxSize - 1)

\* Two distinct cells in one row, one column or one box.
Peers(p, q) ==
    /\ p # q
    /\ \/ p[1] = q[1]
       \/ p[2] = q[2]
       \/ (q[1] \in BoxRange(p[1]) /\ q[2] \in BoxRange(p[2]))

\* The value occurs at another position of pos's row, column or box.
OccursElsewhere(board, num, pos) ==
    \E q \in Cells : Peers(pos, q) /\ board[q[1]][q[2]] = num

\* No value occurs twice in a row, a column or a box.
NoConflict(board) ==
    \A p \in Cells : board[p[1]][p[2]] # 0 => ~OccursElsewhere(board, board[p[1]][p[2]], p)

\* The cells of box k.
BoxCells(k) ==
    {c \in Cells : c[1] \div BoxSize = k \div BoxSize /\ c[2] \div BoxSize = k % BoxSize}

\* A valid Solved Grid: every row, column and box is a permutation of 1 .. N.
IsSolvedGrid(g) ==
    \A k \in Idx :
        /\ {g[k][j] : j \in Idx} = 1 .. N
        /\ {g[i][k] : i \in Idx} = 1 .. N
        /\ {g[c[1]][c[2]] : c \in BoxCells(k)} = 1 .. N

\* The rows that are permutations of 1 .. N.
RowPerms == {[j \in Idx |-> p[j + 1]] : p \in Permutations(1 .. N)}

RECURSIVE LatinRows(_)
\* The stacks of k such rows in which no column holds a value twice.
LatinRows(k) ==
    IF k = 1 THEN {(0 :> r) : r \in RowPerms}
    ELSE LET fits == {t \in LatinRows(k - 1) \X RowPerms :
                        \A i \in 0 .. (k - 2) : \A j \in Idx : t[1][i][j] # t[2][j]}
         IN  {t[1] @@ ((k - 1) :> t[2]) : t \in fits}

\* Every valid Solved Grid, as an enumerated set.
AllGrids == {g : g \in {h \in LatinRows(N) : IsSolvedGrid(h)}}

\* The completions of a board to a valid Solved Grid.
Completions(board) ==
    {g \in AllGrids : \A c \in Cells :
        board[c[1]][c[2]] # 0 => g[c[1]][c[2]] = board[c[1]][c[2]]}

\* The number of completions, capped at 2.
CappedCompletions(board) ==
    LET n == Cardinality(Completions(board)) IN IF n > 2 THEN 2 ELSE n

\* ------------------------------------------------ the session's claims

\* The holes of the game: the cells the player may edit.
Holes == EmptyCells(initialPuzzle)

\* Play State is complete: no empty cell, and equal to Solved Grid.
Complete == EmptyCells(puzzleBoard) = {} /\ SameCells(puzzleBoard, solvedBoard)

\* The holes that hold a value other than the solution's.
WrongCells ==
    {c \in Holes : /\ puzzleBoard[c[1]][c[2]] # 0
                   /\ puzzleBoard[c[1]][c[2]] # solvedBoard[c[1]][c[2]]}

\* C3: every cell that is non-zero in Initial Puzzle holds the same value in
\* Play State, after any sequence of keyboard, pad and clear moves.
GivenCellsKept ==
    \A c \in Cells :
        initialPuzzle[c[1]][c[2]] # 0
            => puzzleBoard[c[1]][c[2]] = initialPuzzle[c[1]][c[2]]

\* A value has been entered in a selected hole whose mirror cell is a given.
GivenCellsKeptWitness ==
    /\ selectedCell # null
    /\ puzzleBoard[selectedCell[1]][selectedCell[2]] # 0
    /\ initialPuzzle[selectedCell[1]][selectedCell[2]] = 0
    /\ initialPuzzle[selectedCell[2]][selectedCell[1]] # 0

\* A step of the keydown or number-pad handler that reaches checkWinCondition.
WinChecked ==
    /\ selectedCell # null
    /\ gameActive
    /\ initialPuzzle[selectedCell[1]][selectedCell[2]] = 0
    /\ selectedCell' = selectedCell
    /\ \/ \E key \in Keys \ {"Enter"} : KeyDown(key)
       \/ \E value \in PadValues : NumBtn(value)

\* C4: checkWinCondition declares the game won (gameActive false, the winning
\* message) if and only if Play State has no empty cell and equals Solved Grid.
WinIffComplete ==
    [][WinChecked =>
         ((gameActive' = FALSE /\ statusMessage' = MsgWon) <=> Complete')]_vars

\* A full board that differs from Solved Grid in the selected cell only: the
\* game is still on.
FullButOneWrong ==
    /\ selectedCell # null
    /\ EmptyCells(puzzleBoard) = {}
    /\ WrongCells = {selectedCell}
    /\ gameActive
    /\ statusMessage # MsgWon

\* C7: resetPuzzle makes Play State equal to Initial Puzzle cell for cell and
\* leaves Solved Grid and Initial Puzzle as they were, whatever preceded it.
ResetRestores ==
    [][ResetPuzzle =>
         /\ SameCells(puzzleBoard', initialPuzzle)
         /\ solvedBoard' = solvedBoard
         /\ initialPuzzle' = initialPuzzle]_vars

\* A game that has been reset: the message of resetPuzzle, nothing selected,
\* the holes empty again.
ResetWitness ==
    /\ statusMessage = MsgReset
    /\ selectedCell = null
    /\ Holes # {}
    /\ SameCells(puzzleBoard, initialPuzzle)
    /\ gameActive

\* The move of value (0 clears) on the selected cell has taken effect: that
\* cell holds the value, every other cell of Play State is as before.
Effect(value) ==
    puzzleBoard' = [puzzleBoard EXCEPT ![selectedCell[1]][selectedCell[2]] = value]

\* What the key asks for: its digit, or 0 for the keys that clear.
KeyValue(key) == IF IsDigitKey(key) THEN parseInt(key) ELSE 0

\* Every move on the selected hole takes effect.
MovesTakeEffect ==
    /\ \A key \in Keys \ {"Enter"} : ENABLED (KeyDown(key) /\ Effect(KeyValue(key)))
    /\ \A value \in PadValues : ENABLED (NumBtn(value) /\ Effect(value))
    /\ ENABLED (ClearBtn /\ Effect(0))

\* C8 as stated: a move on a hole with a value in 0..9 takes effect in every
\* reachable state, also once the puzzle has been completed.
MoveAlwaysTakesEffect ==
    (selectedCell # null /\ selectedCell \in Holes) => MovesTakeEffect

\* C8 amended: a move on a hole with a value in 0..9 takes effect in every
\* reachable state in which the game is active.
MoveTakesEffectWhileActive ==
    (selectedCell # null /\ selectedCell \in Holes /\ gameActive) => MovesTakeEffect

\* A hole is selected and holds a value, the game being on: the next move
\* overwrites or clears it.
MoveWitness ==
    /\ selectedCell # null
    /\ selectedCell \in Holes
    /\ gameActive
    /\ puzzleBoard[selectedCell[1]][selectedCell[2]] # 0
    /\ EmptyCells(puzzleBoard) # {}

\* C9: once the error check has run, the cells flagged incorrect are exactly
\* the holes whose value is not empty and differs from Solved Grid.
ErrorCheckFlagsWrongCells ==
    statusMessage \in {MsgIncorrect, MsgCorrect} => incorrectCells = WrongCells

\* A step of newGame or of a change of difficulty: the only steps that leave
\* the message of a new game with no cell selected.
NewGameStep == statusMessage' = MsgNew /\ selectedCell' = null

\* C11: between one new game and the next, no selection, move, clear, answer
\* check, win check or reset changes a cell of Initial Puzzle or Solved Grid,
\* and Play State is never the same array as either of them.
BoardsFrozenWithinGame ==
    [][~NewGameStep =>
         /\ initialPuzzle' = initialPuzzle
         /\ solvedBoard' = solvedBoard
         /\ aliases' = {}]_vars

\* A value has been entered in a hole after a reset: Play State was re-created
\* from Initial Puzzle and then written.
MoveAfterResetWitness ==
    /\ statusMessage = MsgReset
    /\ selectedCell # null
    /\ initialPuzzle[selectedCell[1]][selectedCell[2]] = 0
    /\ puzzleBoard[selectedCell[1]][selectedCell[2]] # 0
    /\ aliases = {}

\* ------------------------------------------------------- createPuzzle

\* The session is not running.
NoSession ==
    /\ solvedBoard = EmptyBoard
    /\ puzzleBoard = EmptyBoard
    /\ initialPuzzle = EmptyBoard
    /\ selectedCell = null
    /\ gameActive = TRUE
    /\ statusMessage = ""
    /\ incorrectCells = {}
    /\ aliases = {}

\* The solved grids handed to createPuzzle: the seed grids whose second row
\* begins with 3 (half of them).
CarveGrids == {g \in SeedGrids : g[1][0] = 3}

\* createPuzzle(board, holes) is entered: every target up to the whole board
\* within the window, the targets up to MaxHoles over every visiting order.
CarveInit ==
    /\ NoSession
    /\ gen = [pc |-> "idle"]
    /\ probe = [op |-> "none"]
    /\ \E board \in CarveGrids :
         \/ \E holes \in 0 .. (N * N) :
              cp = [pc |-> "loop", holes |-> holes, window |-> ShuffleWindow,
                    loc |-> createPuzzleEntry(board)]
         \/ \E holes \in HoleCounts :
              cp = [pc |-> "loop", holes |-> holes, window |-> N * N,
                    loc |-> createPuzzleEntry(board)]

\* One iteration of the loop.
CarveVisit ==
    /\ cp.pc = "loop"
    /\ ~createPuzzleExit(cp.loc, cp.holes)
    /\ \E pos \in NextCells(cp.loc.cells, cp.window) :
         cp' = [cp EXCEPT !.loc = createPuzzleVisit(@, pos)]
    /\ UNCHANGED <<session, gen, probe>>

\* return puzzle
CarveReturn ==
    /\ cp.pc = "loop"
    /\ createPuzzleExit(cp.loc, cp.holes)
    /\ cp' = [cp EXCEPT !.pc = "done"]
    /\ UNCHANGED <<session, gen, probe>>

CarveNext == CarveVisit \/ CarveReturn

SpecCarve == CarveInit /\ [][CarveNext]_vars

\* -------------------------------------------- generateSolvedSudokuGrid

\* Largest number of empty cells of a partially filled board handed to
\* generateSolvedSudokuGrid.
MaxEmpty == 8

\* The board with its last k cells in scan order set to 0.
TailCleared(board, k) ==
    [i \in Idx |-> [j \in Idx |->
        IF ScanIndex(<<i, j>>) >= N * N - k THEN 0 ELSE board[i][j]]]

\* The boards handed to generateSolvedSudokuGrid: the all-empty baseBoard of
\* initializeGame, and partially filled boards: a generated grid with its
\* last cells cleared, as it is or with one of the cleared cells filled
\* again with any value.
GenInputs ==
    {EmptyBoard}
        \cup {TailCleared(g, k) : g \in SeedGrids, k \in 1 .. MaxEmpty}
        \cup {SetCell(TailCleared(c[1], c[2]), c[3], c[4]) :
                 c \in {d \in SeedGrids \X (1 .. MaxEmpty) \X Cells \X (1 .. N) :
                          ScanIndex(d[3]) >= N * N - d[2]}}

GenInit ==
    /\ NoSession
    /\ cp = [pc |-> "idle"]
    /\ probe = [op |-> "none"]
    /\ \E board \in GenInputs :
         gen = [pc |-> "call", input |-> board, board |-> board, result |-> FALSE]

\* The call runs to its return.
Generate ==
    /\ gen.pc = "call"
    /\ \E o \in generateSolvedSudokuGrid(gen.board) :
         gen' = [gen EXCEPT !.pc = "returned", !.board = o.board, !.result = o.ok]
    /\ UNCHANGED <<session, cp, probe>>

GenNext == Generate

SpecGen == GenInit /\ [][GenNext]_vars

\* ------------------------------------ isValidPlacement, countSolutions

RECURSIVE SparseBoards(_)
\* The boards with at most k filled cells.
SparseBoards(k) ==
    IF k = 0 THEN {EmptyBoard}
    ELSE LET less == SparseBoards(k - 1)
         IN  less \cup {SetCell(b, c, v) : b \in less, c \in Cells, v \in 1 .. N}

RECURSIVE ClearedBoards(_)
\* The seed grids with at most k cells cleared.
ClearedBoards(k) ==
    IF k = 0 THEN SeedGrids
    ELSE LET less == ClearedBoards(k - 1)
         IN  less \cup {SetCell(b, c, 0) : b \in less, c \in Cells}

\* The seed grids with at most k cells cleared, and those with one cleared
\* cell filled again with any digit.
DenseBoards(k) ==
    LET cleared == ClearedBoards(k)
        refill == {t \in cleared \X Cells \X (1 .. N) : t[1][t[2][1]][t[2][2]] = 0}
    IN  cleared \cup {SetCell(t[1], t[2], t[3]) : t \in refill}

\* The boards handed to isValidPlacement.
ValidBoards(filled) == SparseBoards(filled)

\* The boards handed to countSolutions.
CountBoards(filled, cleared) == SparseBoards(filled) \cup DenseBoards(cleared)

PureInit ==
    /\ NoSession
    /\ cp = [pc |-> "idle"]
    /\ gen = [pc |-> "idle"]
    /\ probe = [op |-> "none"]

\* The calls isValidPlacement(board, num, pos): every value and position on
\* the sparse boards, and every value at the cleared position of a generated
\* grid with one cell cleared (as the searches and renderBoard call it).
ValidCalls(filled) ==
    (ValidBoards(filled) \X (1 .. N) \X Cells)
        \cup {<<SetCell(g, pos, 0), num, pos>> :
                 g \in GeneratedGrids, num \in 1 .. N, pos \in Cells}

\* isValidPlacement taking the column of the box from the row and the row of
\* the box from the column (boxX = Math.floor(row / 3), boxY =
\* Math.floor(col / 3)).
isValidPlacementWrongBox(board, num, pos) ==
    LET row == pos[1]
        col == pos[2]
        boxX == row \div BoxSize
        boxY == col \div BoxSize
    IN  /\ \A j \in Idx : ~(board[row][j] = num /\ col # j)
        /\ \A i \in Idx : ~(board[i][col] = num /\ row # i)
        /\ \A i \in (boxY * BoxSize) .. (boxY * BoxSize + BoxSize - 1) :
             \A j \in (boxX * BoxSize) .. (boxX * BoxSize + BoxSize - 1) :
                ~(board[i][j] = num /\ (i # row \/ j # col))

\* The calls answered by isValidPlacementWrongBox.
CallIsValidPlacementWrongBox ==
    /\ probe.op = "none"
    /\ \E call \in ValidCalls(MaxFilled) :
         probe' = [op |-> "isValidPlacement", board |-> call[1], num |-> call[2],
                   pos |-> call[3],
                   result |-> isValidPlacementWrongBox(call[1], call[2], call[3])]
    /\ UNCHANGED <<session, cp, gen>>

\* A call of isValidPlacement(board, num, pos).
CallIsValidPlacement ==
    /\ probe.op = "none"
    /\ \E call \in ValidCalls(MaxFilled) :
         probe' = [op |-> "isValidPlacement", board |-> call[1], num |-> call[2],
                   pos |-> call[3],
                   result |-> isValidPlacement(call[1], call[2], call[3])]
    /\ UNCHANGED <<session, cp, gen>>

\* A call of countSolutions(board): what it returns, and the board as the
\* search left it.
CallCountSolutions ==
    /\ probe.op = "none"
    /\ \E board \in CountBoards(MaxFilled, MaxCleared) :
         LET run == SolveRun(board)
         IN  probe' = [op |-> "countSolutions", board |-> board,
                       result |-> run.count, after |-> run.board]
    /\ UNCHANGED <<session, cp, gen>>

PureNext == CallIsValidPlacement \/ CallCountSolutions

SpecPure == PureInit /\ [][PureNext]_vars

\* --------------------------------------------- the generation's claims

\* C1: the board createPuzzle returns has exactly one completion to a valid
\* Solved Grid, countSolutions says 1 of it, and each of its non-zero cells
\* equals the cell of the grid it was carved from.
CarvedPuzzleUnique ==
    cp.pc = "done" =>
        /\ Cardinality(Completions(cp.loc.puzzle)) = 1
        /\ countSolutions(cp.loc.puzzle) = 1
        /\ \A c \in Cells :
             cp.loc.puzzle[c[1]][c[2]] # 0
                => cp.loc.puzzle[c[1]][c[2]] = cp.loc.board[c[1]][c[2]]

\* createPuzzle has returned a board with half of the cells or more removed,
\* after a removal was rejected and the cell restored.
CarvedPuzzleWitness ==
    /\ cp.pc = "done"
    /\ 2 * cp.loc.removed >= N * N
    /\ \E c \in Cells \ cp.loc.cells : cp.loc.puzzle[c[1]][c[2]] # 0

\* C2: generateSolvedSudokuGrid on an all-empty board returns true whatever
\* the shuffles give, and leaves a board without an empty cell whose rows,
\* columns and boxes are permutations of 1 .. N.
GeneratedGridValid ==
    (gen.pc = "returned" /\ gen.input = EmptyBoard) =>
        /\ gen.result = TRUE
        /\ EmptyCells(gen.board) = {}
        /\ IsSolvedGrid(gen.board)

\* The generator has returned a grid whose first row is not in increasing
\* order: the shuffles decided it.
GeneratedGridWitness ==
    /\ gen.pc = "returned"
    /\ gen.input = EmptyBoard
    /\ gen.result = TRUE
    /\ gen.board[0][0] = N
    /\ gen.board[0][1] = 1

\* C5: isValidPlacement returns false if and only if the value occurs at
\* another position of the row, the column or the box of the position; what
\* the position itself holds does not change the result.
ValidPlacementIffAbsent ==
    probe.op = "isValidPlacement" =>
        /\ probe.result = FALSE <=> OccursElsewhere(probe.board, probe.num, probe.pos)
        /\ \A x \in 0 .. N :
             isValidPlacement(SetCell(probe.board, probe.pos, x), probe.num, probe.pos)
                = probe.result

\* isValidPlacement has returned false for a value that occurs in the box
\* only, not in the row nor the column, the position itself holding the value.
ValidPlacementWitness ==
    /\ probe.op = "isValidPlacement"
    /\ probe.result = FALSE
    /\ probe.board[probe.pos[1]][probe.pos[2]] = probe.num
    /\ \A q \in Cells :
         (q # probe.pos /\ (q[1] = probe.pos[1] \/ q[2] = probe.pos[2]))
            => probe.board[q[1]][q[2]] # probe.num

\* countSolutions returned the number of completions capped at 2, and a
\* search that returned 2 stopped on its second solution.
CountIsCappedCompletions ==
    /\ probe.result = CappedCompletions(probe.board)
    /\ probe.result = 2 =>
         /\ probe.after \in Completions(probe.board)
         /\ EmptyCells(probe.after) = {}
    /\ probe.result < 2 => probe.after = probe.board

\* C6 as stated: for every board, countSolutions returns the number of
\* completions of the board to a valid Solved Grid, capped at 2, the search
\* stopping at the second solution.
CountSolutionsAnyBoard ==
    probe.op = "countSolutions" => CountIsCappedCompletions

\* C6 amended: for every board whose filled cells do not conflict,
\* countSolutions returns the number of completions of the board to a valid
\* Solved Grid, capped at 2, the search stopping at the second solution.
CountSolutionsConsistentBoard ==
    (probe.op = "countSolutions" /\ NoConflict(probe.board)) => CountIsCappedCompletions

\* countSolutions has returned 2 for a board without conflict that has more
\* than two completions.
CountSolutionsWitness ==
    /\ probe.op = "countSolutions"
    /\ NoConflict(probe.board)
    /\ probe.result = 2
    /\ Cardinality(Completions(probe.board)) > 2

\* C10: the board createPuzzle returns has at most holeCount empty cells, and
\* fewer only when zeroing any one of its non-zero cells gives a board that
\* does not have exactly one solution.
CarvedHolesBounded ==
    cp.pc = "done" =>
        /\ Cardinality(EmptyCells(cp.loc.puzzle)) <= cp.holes
        /\ Cardinality(EmptyCells(cp.loc.puzzle)) < cp.holes =>
             \A c \in Cells \ EmptyCells(cp.loc.puzzle) :
                Cardinality(Completions(SetCell(cp.loc.puzzle, c, 0))) # 1

\* createPuzzle has returned with fewer holes than asked for.
CarvedHolesWitness ==
    /\ cp.pc = "done"
    /\ cp.loc.removed > 0
    /\ Cardinality(EmptyCells(cp.loc.puzzle)) < cp.holes

\* createPuzzle was asked for as many holes as the board has cells.
CarveAll == cp.holes = N * N

\* C12: createPuzzle asked to empty the whole board terminates: every
\* iteration takes one position off the list of those still to visit (none is
\* visited twice, so there are at most N * N iterations), after it the loop
\* either ends or has a position to go on with, every countSolutions call
\* returns, and the board the carver holds, and returns, is not empty and has
\* exactly one solution.
CarveAllTerminates ==
    [][CarveAll =>
         /\ (cp.pc = "loop" /\ cp'.pc = "loop") =>
              /\ cp'.loc.cells \subseteq cp.loc.cells
              /\ Cardinality(cp'.loc.cells) = Cardinality(cp.loc.cells) - 1
         /\ cp'.pc = "loop" =>
              \/ cp'.loc.removed >= cp'.holes
              \/ cp'.loc.cells = {}
              \/ NextCells(cp'.loc.cells, cp'.window) # {}
         /\ Cardinality(Completions(cp'.loc.puzzle)) = 1
         /\ countSolutions(cp'.loc.puzzle) = 1
         /\ cp'.pc = "done" => EmptyCells(cp'.loc.puzzle) # Cells]_vars

\* createPuzzle asked to empty the board has returned after visiting every
\* position, with fewer holes than cells.
CarveAllWitness ==
    /\ CarveAll
    /\ cp.pc = "done"
    /\ cp.loc.cells = {}
    /\ cp.loc.removed < N * N
    /\ cp.loc.removed > 0

\* C13: on a Solved Grid with one cell cleared, isValidPlacement at that cell
\* is true for the value the grid held there and false for every other value.
ValidPlacementRoundTrip ==
    (probe.op = "isValidPlacement" /\ EmptyCells(probe.board) = {probe.pos}) =>
        \A g \in AllGrids :
            SetCell(g, probe.pos, 0) = probe.board =>
                (probe.result <=> probe.num = g[probe.pos[1]][probe.pos[2]])

\* isValidPlacement has accepted a value at the one cleared cell of a Solved
\* Grid, in the last box.
RoundTripWitness ==
    /\ probe.op = "isValidPlacement"
    /\ EmptyCells(probe.board) = {probe.pos}
    /\ probe.pos = <<N - 1, N - 1>>
    /\ \E g \in AllGrids : SetCell(g, probe.pos, 0) = probe.board
    /\ probe.result = TRUE

\* C14: on a partially filled board whose filled cells do not conflict,
\* generateSolvedSudokuGrid returns true exactly when the board has a
\* completion to a valid Solved Grid; the board it leaves is then such a
\* completion, every pre-filled cell kept; when it returns false the board is
\* the input board again, every cell it tried reset to 0.
GeneratorPropagatesFailure ==
    (gen.pc = "returned" /\ NoConflict(gen.input)) =>
        /\ gen.result <=> Completions(gen.input) # {}
        /\ gen.result =>
             /\ IsSolvedGrid(gen.board)
             /\ \A c \in Cells \ EmptyCells(gen.input) :
                  gen.board[c[1]][c[2]] = gen.input[c[1]][c[2]]
        /\ ~gen.result => gen.board = gen.input

\* The generator has returned false on a board without conflict, after it
\* tried a value in the first empty cell and values in the cells after it.
GeneratorFailureWitness ==
    /\ gen.pc = "returned"
    /\ NoConflict(gen.input)
    /\ gen.result = FALSE
    /\ \E n \in 1 .. N :
         /\ isValidPlacement(gen.input, n, findEmptyCell(gen.input))
         /\ \E m \in 1 .. N :
              LET next == SetCell(gen.input, findEmptyCell(gen.input), n)
              IN  isValidPlacement(next, m, findEmptyCell(next))

\* C15: createPuzzle never changes the solved grid passed to it, and what
\* countSolutions writes during its search never reaches the carver's puzzle:
\* a visit changes the puzzle in at most the visited cell, and every cell of
\* the puzzle is empty or holds the value of the solved grid.
CarverCopiesBoards ==
    [][/\ cp'.loc.board = cp.loc.board
       /\ \A c \in Cells :
            /\ cp'.loc.puzzle[c[1]][c[2]] # cp.loc.puzzle[c[1]][c[2]] =>
                 c \in cp.loc.cells \ cp'.loc.cells
            /\ cp'.loc.puzzle[c[1]][c[2]] \in {0, cp.loc.board[c[1]][c[2]]}
       /\ IsSolvedGrid(cp'.loc.board)]_vars

\* The loop goes on after a visit whose uniqueness test stopped at the cap
\* with cells of its own board still filled; the visited cell holds its value
\* again.
CarverCopyWitness ==
    /\ cp.pc = "loop"
    /\ cp.loc.cells # {}
    /\ \E c \in Cells \ cp.loc.cells :
         /\ cp.loc.puzzle[c[1]][c[2]] # 0
         /\ LET run == SolveRun(SetCell(cp.loc.puzzle, c, 0))
            IN  /\ run.count > 1
                /\ EmptyCells(run.board) # EmptyCells(SetCell(cp.loc.puzzle, c, 0))

\* In a game with a hole, the game is inactive exactly when Play State equals
\* Solved Grid cell for cell.
InactiveIffSolved ==
    Holes # {} => (~gameActive <=> SameCells(puzzleBoard, solvedBoard))

\* C16: in a game whose Initial Puzzle has a hole, in every state the moves,
\* clears, answer checks and resets reach, the game is inactive if and only
\* if Play State equals Solved Grid cell for cell; the step that completes the
\* grid makes the game inactive, and only a reset or a new game makes an
\* inactive game active.
InactiveExactlyWhenSolved ==
    [][/\ (~gameActive /\ gameActive') => statusMessage' \in {MsgReset, MsgNew}
       /\ InactiveIffSolved
       /\ InactiveIffSolved']_vars

\* The game was won and the answers were then checked: the game is inactive,
\* every hole is filled, and a hole is still selected.
InactiveWitness ==
    /\ ~gameActive
    /\ Holes # {}
    /\ selectedCell \in Holes
    /\ SameCells(puzzleBoard, solvedBoard)
    /\ statusMessage = MsgCorrect

====
